---- MODULE Spec2Model ----
(***************************************************************************)
(* Revatix: the in-memory bookkeeping of the wallet/state-channel front    *)
(* end.  Three objects are modelled, each from its source:                 *)
(*   - YellowNetworkService (services/yellowNetworkService.ts): the        *)
(*     channel registry, two parallel maps keyed by the channel id;        *)
(*   - WalletManager (the session-key store);                              *)
(*   - CerebroGame (the turn-based example game);                          *)
(* with the module-level wallet state of utils/yellowNetwork.ts            *)
(* (connectedAccount and the functions that assign it).                    *)
(* The JavaScript runtime runs one task at a time: a handler runs without  *)
(* interruption up to its first await on an external call, so one action   *)
(* is either a whole handler or the part of it between two awaits.         *)
(* Date.now() is the variable now; it has millisecond resolution, so two   *)
(* handlers can read the same value (Tick advances it).                    *)
(***************************************************************************)
EXTENDS Integers, Sequences, FiniteSets, TLC

\* ------------------------------------------------------------------ bounds
MaxTime == 2            \* Date.now() ranges over 0..MaxTime in the session store
MaxNonce == 1           \* Date.now() ranges over 0..MaxNonce in the channel registry
MaxVersion == 1         \* versions offered to updateChannelState: 0..MaxVersion
MaxPending == 1         \* calls of one kind suspended at an await at the same time
MaxMoves == 2           \* accepted moves of one Cerebro game

Null == "null"          \* JavaScript null / undefined
NoError == "none"       \* a result without an error field

VARIABLES
  now,                  \* Date.now()
  ret,                  \* the last call: its arguments and how it ended
  isConnected,          \* YellowNetworkService.isConnected
  currentAccount,       \* YellowNetworkService.currentAccount
  activeChannels,       \* YellowNetworkService.activeChannels : id -> ChannelConfig
  channelStates,        \* YellowNetworkService.channelStates  : id -> StateUpdate
  closedIds,            \* history: the ids closeStateChannel has removed so far
  sessions,             \* WalletManager.sessions, a Map: its entries in insertion order
  wmClient,             \* WalletManager.nitroliteClient: Null or "client"
  pendingDisconnect,    \* addresses whose disconnectWallet awaits the client's disconnect
  deleted,              \* history: the entries the last WalletManager call deleted
  participants,         \* CerebroGame.participants
  channelId,            \* CerebroGame.channelId
  gameState,            \* CerebroGame.gameState: <<>> (null) or <<the CerebroState>>
  pendingMoves,         \* number of makeMove calls awaiting nitroliteClient.updateChannel
  sentUpdate,           \* the last update passed to nitroliteClient.updateChannel: <<>> or <<it>>
  pendingSync,          \* the syncGameState awaiting getChannel: <<>> or <<the response to come>>
  connectedAccount,     \* utils/yellowNetwork.ts: the module-level connectedAccount
  pendingConnect,       \* addresses whose connectWalletWithSession awaits the client's connect
  enhanced              \* the connectWalletEnhanced call in progress: <<>> or <<its frame>>

svcVars == <<isConnected, currentAccount, activeChannels, channelStates>>
wmVars == <<sessions, wmClient, pendingDisconnect, deleted>>
cgVars == <<participants, channelId, gameState, pendingMoves, sentUpdate, pendingSync>>
utVars == <<connectedAccount, pendingConnect, enhanced>>
vars == <<now, ret, svcVars, closedIds, wmVars, cgVars, utVars>>
notSvc == <<wmVars, cgVars, utVars>>               \* what no YellowNetworkService method touches
notWm == <<svcVars, closedIds, cgVars, utVars>>    \* what no WalletManager method touches
notCg == <<svcVars, closedIds, wmVars, utVars>>    \* what no CerebroGame method touches

\* ----------------------------------------------------------------- helpers
\* Map.set / Map.delete / Map.has on a map held as a function
MapSet(m, k, v) == [x \in (DOMAIN m) \cup {k} |-> IF x = k THEN v ELSE m[x]]
MapDelete(m, k) == [x \in (DOMAIN m) \ {k} |-> m[x]]
MapHas(m, k) == k \in DOMAIN m
EmptyMap == [x \in {} |-> Null]

\* The end of a call: thrown = TRUE when the promise rejects (or the function
\* throws), otherwise the returned value with its success/error fields.
Returned(op, arg, success, error, value) ==
  [op |-> op, arg |-> arg, thrown |-> FALSE, success |-> success,
   error |-> error, value |-> value]
Threw(op, arg, error) ==
  [op |-> op, arg |-> arg, thrown |-> TRUE, success |-> FALSE,
   error |-> error, value |-> Null]
\* a call without arguments
NoArg == [none |-> TRUE]
NoCall == Returned("none", NoArg, TRUE, NoError, Null)
\* a call suspended at an await has not ended yet
Awaiting(op, arg) == Returned(op, arg, FALSE, NoError, "awaiting")

\* --------------------------------------------------- YellowNetworkService
MockAddress == "0x742d"
WalletAddress == "0xWallet"
Participants == {<<"P1", "P2">>, <<>>}
Payloads == {"0x", "0x01"}     \* intent, data, allocations and sigs of a StateUpdate
StateUpdates == [version : 0..MaxVersion, data : Payloads]

\* `channel_${channelConfig.nonce}` with nonce = BigInt(Date.now())
ChannelIdOf(nonce) == <<"channel_", nonce>>
ChannelIds == {ChannelIdOf(t) : t \in 0..MaxNonce}

\* what the service's connect and disconnect leave alone outside the service:
\* they run the utils-level connectWallet and disconnectWallet, which assign
\* connectedAccount
notWallet == <<wmVars, cgVars, pendingConnect, enhanced>>

\* connect(): connectWallet() resolved (it has assigned connectedAccount),
\* rejected with a 'not initialized' message before it assigned anything
\* (demo-mode fallback), or rejected with another error (rethrown).
connect(outcome) ==
  /\ CASE outcome = "resolved" ->
            /\ connectedAccount' = WalletAddress
            /\ isConnected' = TRUE
            /\ currentAccount' = WalletAddress
            /\ ret' = Returned("connect", NoArg, TRUE, NoError, WalletAddress)
       [] outcome = "not initialized" ->
            /\ UNCHANGED connectedAccount
            /\ isConnected' = TRUE
            /\ currentAccount' = MockAddress
            /\ ret' = Returned("connect", NoArg, TRUE, NoError, MockAddress)
       [] OTHER ->
            /\ UNCHANGED <<connectedAccount, isConnected, currentAccount>>
            /\ ret' = Threw("connect", NoArg, outcome)
  /\ UNCHANGED <<now, activeChannels, channelStates, closedIds, notWallet>>

\* faulty variant: the connection flag is cleared before the client's
\* disconnect is awaited, so a failed disconnect leaves it cleared
disconnectClearsFlagFirst(outcome) ==
  /\ IF outcome = "resolved"
     THEN /\ connectedAccount' = Null
          /\ isConnected' = FALSE
          /\ currentAccount' = Null
          /\ activeChannels' = EmptyMap
          /\ channelStates' = EmptyMap
          /\ ret' = Returned("disconnect", NoArg, TRUE, NoError, Null)
     ELSE /\ isConnected' = FALSE
          /\ UNCHANGED <<currentAccount, activeChannels, channelStates, connectedAccount>>
          /\ ret' = Threw("disconnect", NoArg, outcome)
  /\ UNCHANGED <<now, closedIds, notWallet>>

\* disconnect(): disconnectWallet() resolved (it has set connectedAccount to
\* null) or rejected.
disconnect(outcome) ==
  /\ IF outcome = "resolved"
     THEN /\ connectedAccount' = Null
          /\ isConnected' = FALSE
          /\ currentAccount' = Null
          /\ activeChannels' = EmptyMap
          /\ channelStates' = EmptyMap
          /\ ret' = Returned("disconnect", NoArg, TRUE, NoError, Null)
     ELSE /\ UNCHANGED <<svcVars, connectedAccount>>
          /\ ret' = Threw("disconnect", NoArg, outcome)
  /\ UNCHANGED <<now, closedIds, notWallet>>

initialState == [version |-> 0, data |-> "0x"]

createStateChannel(ps) ==
  /\ IF ~isConnected \/ currentAccount = Null
     THEN /\ ret' = Threw("createStateChannel", [participants |-> ps],
                          "Wallet not connected")
          /\ UNCHANGED <<activeChannels, channelStates>>
     ELSE LET id == ChannelIdOf(now) IN
          /\ activeChannels' = MapSet(activeChannels, id, [participants |-> ps, nonce |-> now])
          \* participants.map calls its function once per participant: with an
          \* empty list the division by participants.length is never evaluated
          /\ channelStates' = MapSet(channelStates, id, initialState)
          /\ ret' = Returned("createStateChannel", [participants |-> ps],
                             TRUE, NoError, id)
  /\ UNCHANGED <<now, isConnected, currentAccount, closedIds, notSvc>>

\* faulty variant: an update carrying the stored version passes the test
ValidTransitionSameVersion(stateUpdate, currentState) ==
  ~(stateUpdate.version < currentState.version)

\* stateUpdate.version <= currentState.version is the rejection test
ValidTransition(stateUpdate, currentState) ==
  ~(stateUpdate.version <= currentState.version)

updateChannelState(id, stateUpdate) ==
  LET arg == [id |-> id, state |-> stateUpdate] IN
  /\ IF ~MapHas(activeChannels, id)
     THEN /\ ret' = Threw("updateChannelState", arg, "Channel not found")
          /\ UNCHANGED channelStates
     ELSE IF ~MapHas(channelStates, id)
     THEN /\ ret' = Threw("updateChannelState", arg, "Channel state not found")
          /\ UNCHANGED channelStates
     ELSE IF ~ValidTransition(stateUpdate, channelStates[id])
     THEN /\ ret' = Threw("updateChannelState", arg, "Invalid state version")
          /\ UNCHANGED channelStates
     ELSE /\ channelStates' = MapSet(channelStates, id, stateUpdate)
          /\ ret' = Returned("updateChannelState", arg, TRUE, NoError, Null)
  /\ UNCHANGED <<now, isConnected, currentAccount, activeChannels, closedIds, notSvc>>

checkpointChannel(id) ==
  /\ IF ~MapHas(activeChannels, id)
     THEN ret' = Returned("checkpointChannel", [id |-> id], FALSE, "Channel not found", Null)
     ELSE IF ~MapHas(channelStates, id)
     THEN ret' = Returned("checkpointChannel", [id |-> id], FALSE,
                          "Channel state not found", Null)
     ELSE ret' = Returned("checkpointChannel", [id |-> id], TRUE, NoError, Null)
  /\ UNCHANGED <<now, svcVars, closedIds, notSvc>>

challengeChannel(id) ==
  /\ IF ~MapHas(activeChannels, id)
     THEN ret' = Returned("challengeChannel", [id |-> id], FALSE, "Channel not found", Null)
     ELSE ret' = Returned("challengeChannel", [id |-> id], TRUE, NoError, Null)
  /\ UNCHANGED <<now, svcVars, closedIds, notSvc>>

\* faulty variant: close removes the configuration and keeps the stored state
closeStateChannelKeepsState(id, finalState) ==
  LET arg == [id |-> id, state |-> finalState] IN
  /\ IF ~MapHas(activeChannels, id)
     THEN /\ ret' = Threw("closeStateChannel", arg, "Channel not found")
          /\ UNCHANGED <<activeChannels, channelStates>>
     ELSE /\ activeChannels' = MapDelete(activeChannels, id)
          /\ UNCHANGED channelStates
          /\ ret' = Returned("closeStateChannel", arg, TRUE, NoError, Null)
  /\ UNCHANGED <<now, isConnected, currentAccount, notSvc>>

closeStateChannel(id, finalState) ==
  LET arg == [id |-> id, state |-> finalState] IN
  /\ IF ~MapHas(activeChannels, id)
     THEN /\ ret' = Threw("closeStateChannel", arg, "Channel not found")
          /\ UNCHANGED <<activeChannels, channelStates>>
     ELSE /\ activeChannels' = MapDelete(activeChannels, id)
          /\ channelStates' = MapDelete(channelStates, id)
          /\ ret' = Returned("closeStateChannel", arg, TRUE, NoError, Null)
  /\ UNCHANGED <<now, isConnected, currentAccount, notSvc>>

\* the utils-level connectWallet(), called directly: it assigns
\* connectedAccount when the client's connectWallet resolved
utilsConnectWallet(outcome) ==
  /\ IF outcome = "resolved"
     THEN /\ connectedAccount' = WalletAddress
          /\ ret' = Returned("connectWallet", NoArg, TRUE, NoError, WalletAddress)
     ELSE /\ UNCHANGED connectedAccount
          /\ ret' = Threw("connectWallet", NoArg, outcome)
  /\ UNCHANGED <<now, svcVars, closedIds, notWallet>>

\* the utils-level disconnectWallet(), called directly
utilsDisconnectWallet(outcome) ==
  /\ IF outcome = "resolved"
     THEN /\ connectedAccount' = Null
          /\ ret' = Returned("disconnectWallet", NoArg, TRUE, NoError, Null)
     ELSE /\ UNCHANGED connectedAccount
          /\ ret' = Threw("disconnectWallet", NoArg, outcome)
  /\ UNCHANGED <<now, svcVars, closedIds, notWallet>>

\* sendPayment(recipient, amount) of the service: its own check of
\* isConnected, then the utils-level sendPayment with its check of
\* connectedAccount; outcome is how the payment ends once both have passed
sendPayment(outcome) ==
  /\ ret' = IF ~isConnected
            THEN Returned("sendPayment", NoArg, FALSE, "Wallet not connected", Null)
            ELSE IF connectedAccount = Null
            THEN Returned("sendPayment", NoArg, FALSE, "Wallet not connected", Null)
            ELSE IF outcome = "resolved"
            THEN Returned("sendPayment", NoArg, TRUE, NoError, Null)
            ELSE Returned("sendPayment", NoArg, FALSE, outcome, Null)
  /\ UNCHANGED <<now, svcVars, closedIds, notSvc>>

\* ------------------------------------------------------------ WalletManager
\* The configuration the manager is constructed with (the default is 24 h and 5).
SessionTimeout == 1
MaxSessions == 2
Addresses == {"0xA", "0xB", "0xC"}
ConnectAddresses == {"0xA"}    \* the addresses offered to the connection flow
Randoms == {"r1", "r2"}        \* Math.random().toString(36).substring(2)

\* Map.get gives a session or undefined: a sequence of one session or of none
NoSession == <<>>
SessionHas(ss, a) == \E i \in 1..Len(ss) : ss[i].address = a
SessionGet(ss, a) == SelectSeq(ss, LAMBDA s : s.address = a)
SessionDelete(ss, a) == SelectSeq(ss, LAMBDA s : s.address # a)
SessionSet(ss, a, session) ==
  IF SessionHas(ss, a)
  THEN [i \in 1..Len(ss) |-> IF ss[i].address = a THEN session ELSE ss[i]]
  ELSE Append(ss, session)

\* faulty variant: a session counts as expired from the instant expiresAt on
IsExpiredAtExpiry(session, t) == t >= session.expiresAt

\* Date.now() > session.expiresAt
IsExpired(session, t) == t > session.expiresAt

\* faulty variant: the lookup does not test the expiry
NotActiveIgnoringExpiry(got, t) == got = NoSession \/ ~got[1].isActive

\* the test of getActiveSession: !session || !session.isActive || Date.now() > session.expiresAt
NotActive(got, t) == got = NoSession \/ ~got[1].isActive \/ IsExpired(got[1], t)

\* faulty variant: the lookup never deletes
AfterLookupKeepsEntry(ss, a, t) == ss

\* getActiveSession(address): the value it returns and the store it leaves
ActiveSession(ss, a, t) ==
  IF NotActive(SessionGet(ss, a), t) THEN NoSession ELSE SessionGet(ss, a)
AfterLookup(ss, a, t) ==
  IF NotActive(SessionGet(ss, a), t) /\ SessionGet(ss, a) # NoSession
  THEN SessionDelete(ss, a) ELSE ss

\* Array.from(values).sort((a, b) => a.createdAt - b.createdAt)[0]: the sort is
\* stable, so among equal createdAt the entry inserted first comes first.
OldestSession(ss) ==
  IF Len(ss) = 0 THEN NoSession
  ELSE <<ss[CHOOSE i \in 1..Len(ss) : \A j \in 1..Len(ss) :
              \/ ss[i].createdAt < ss[j].createdAt
              \/ ss[i].createdAt = ss[j].createdAt /\ i <= j]>>

\* faulty variant: the capacity check lets the store grow one entry past the limit
AtCapacityOffByOne(ss) == Len(ss) > MaxSessions

\* the capacity check of createWalletSession
AtCapacity(ss) == Len(ss) >= MaxSessions

\* faulty variant: any key is accepted while a session is active
KeyMatchesAnyKey(got, key) == got # NoSession

\* `session_${address}_${timestamp}_${random}`
generateSessionKey(a, t, random) == <<"session_", a, t, random>>

\* session?.sessionKey === sessionKey, the key a string: undefined equals no string
KeyMatches(got, key) == got # NoSession /\ got[1].sessionKey = key

\* the entries of ss that are no longer in after, in the order of ss
Removed(ss, after) ==
  SelectSeq(ss, LAMBDA s : \A i \in 1..Len(after) : after[i] # s)

initialize ==
  /\ wmClient' = "client"
  /\ ret' = Returned("initialize", NoArg, TRUE, NoError, Null)
  /\ deleted' = <<>>
  /\ UNCHANGED <<now, sessions, pendingDisconnect, notWm>>

getActiveSession(a) ==
  /\ sessions' = AfterLookup(sessions, a, now)
  /\ ret' = Returned("getActiveSession", [address |-> a], TRUE, NoError,
                     ActiveSession(sessions, a, now))
  /\ deleted' = Removed(sessions, sessions')
  /\ UNCHANGED <<now, wmClient, pendingDisconnect, notWm>>

validateSessionKey(a, key) ==
  /\ sessions' = AfterLookup(sessions, a, now)
  /\ ret' = Returned("validateSessionKey", [address |-> a, key |-> key], TRUE, NoError,
                     KeyMatches(ActiveSession(sessions, a, now), key))
  /\ deleted' = Removed(sessions, sessions')
  /\ UNCHANGED <<now, wmClient, pendingDisconnect, notWm>>

\* the body of createWalletSession(address): it has no await
createWalletSessionCall(a) ==
  LET existingSession == ActiveSession(sessions, a, now)
      looked == AfterLookup(sessions, a, now)
      arg == [address |-> a]
  IN
  /\ IF existingSession # NoSession
     THEN /\ sessions' = looked
          /\ ret' = Returned("createWalletSession", arg, TRUE, NoError,
                             existingSession[1].sessionKey)
     ELSE IF AtCapacity(looked) /\ OldestSession(looked) = NoSession
     THEN \* oldestSession is undefined: reading .address throws, the catch returns it
          /\ sessions' = looked
          /\ ret' = Returned("createWalletSession", arg, FALSE, "TypeError", Null)
     ELSE \E random \in Randoms :
          LET room == IF AtCapacity(looked)
                      THEN SessionDelete(looked, OldestSession(looked)[1].address)
                      ELSE looked
              sessionKey == generateSessionKey(a, now, random)
              session == [address |-> a, sessionKey |-> sessionKey, isActive |-> TRUE,
                          createdAt |-> now, expiresAt |-> now + SessionTimeout]
          IN
          /\ sessions' = SessionSet(room, a, session)
          /\ ret' = Returned("createWalletSession", arg, TRUE, NoError, sessionKey)
  /\ deleted' = Removed(sessions, sessions')

createWalletSession(a) ==
  /\ createWalletSessionCall(a)
  /\ UNCHANGED <<now, wmClient, pendingDisconnect, notWm>>

\* disconnectWallet(address) up to its await: without a client there is no
\* await and the session is removed at once.
disconnectWallet(a) ==
  /\ IF wmClient # Null
     THEN /\ a \notin pendingDisconnect
          /\ Cardinality(pendingDisconnect) < MaxPending
          /\ pendingDisconnect' = pendingDisconnect \cup {a}
          /\ ret' = Awaiting("disconnectWallet", [address |-> a])
          /\ UNCHANGED sessions
     ELSE /\ sessions' = SessionDelete(sessions, a)
          /\ ret' = Returned("disconnectWallet", [address |-> a], TRUE, NoError, Null)
          /\ UNCHANGED pendingDisconnect
  /\ deleted' = Removed(sessions, sessions')
  /\ UNCHANGED <<now, wmClient, notWm>>

\* disconnectWallet(address) from the end of nitroliteClient.disconnectWallet()
disconnectWalletResume(a, outcome) ==
  /\ a \in pendingDisconnect
  /\ pendingDisconnect' = pendingDisconnect \ {a}
  /\ IF outcome = "resolved"
     THEN /\ sessions' = SessionDelete(sessions, a)
          /\ ret' = Returned("disconnectWallet", [address |-> a], TRUE, NoError, Null)
     ELSE /\ UNCHANGED sessions
          /\ ret' = Returned("disconnectWallet", [address |-> a], FALSE, outcome, Null)
  /\ deleted' = Removed(sessions, sessions')
  /\ UNCHANGED <<now, wmClient, notWm>>

\* faulty variant: the scan stops after the first entry it deletes
cleanupExpiredSessionsStopsAtFirst ==
  /\ sessions' =
       IF \E i \in 1..Len(sessions) : IsExpired(sessions[i], now)
       THEN LET first == CHOOSE i \in 1..Len(sessions) :
                           /\ IsExpired(sessions[i], now)
                           /\ \A j \in 1..(i - 1) : ~IsExpired(sessions[j], now)
            IN  SessionDelete(sessions, sessions[first].address)
       ELSE sessions
  /\ ret' = Returned("cleanupExpiredSessions", NoArg, TRUE, NoError, Null)
  /\ deleted' = Removed(sessions, sessions')
  /\ UNCHANGED <<now, wmClient, pendingDisconnect, notWm>>

cleanupExpiredSessions ==
  /\ sessions' = SelectSeq(sessions, LAMBDA s : ~IsExpired(s, now))
  /\ ret' = Returned("cleanupExpiredSessions", NoArg, TRUE, NoError, Null)
  /\ deleted' = Removed(sessions, sessions')
  /\ UNCHANGED <<now, wmClient, pendingDisconnect, notWm>>

\* the keys a caller can present for an address: every key the generator can
\* have produced for it so far (a key made for another address never matches)
SessionKeys(a) == {generateSessionKey(a, t, r) : t \in 0..now, r \in Randoms}

\* ------------------------------------------- connecting with a session key
\* handleYellowNetworkError(error).userMessage: the entry of the error map
\* whose message matches, 'An unexpected error occurred' when none does
UserMessage(error) ==
  IF error = "Invalid or expired session key" THEN "Your session has expired"
  ELSE "An unexpected error occurred"

\* faulty variant: the session key is not validated before the client is called
ConnectCheckClientOnly(ss, client, a, key, t) ==
  IF client = Null THEN "Nitrolite client not initialized" ELSE NoError

\* connectWalletWithSession before its await: the error it throws, or none
ConnectCheck(ss, client, a, key, t) ==
  IF ~KeyMatches(ActiveSession(ss, a, t), key) THEN "Invalid or expired session key"
  ELSE IF client = Null THEN "Nitrolite client not initialized"
  ELSE NoError

\* connectWalletWithSession(address, sessionKey) up to its await on
\* nitroliteClient.connectWallet
connectWalletWithSession(a, key) ==
  LET arg == [address |-> a, key |-> key]
      error == ConnectCheck(sessions, wmClient, a, key, now)
  IN
  /\ sessions' = AfterLookup(sessions, a, now)
  /\ deleted' = Removed(sessions, sessions')
  /\ IF error # NoError
     THEN /\ ret' = Returned("connectWalletWithSession", arg, FALSE, error, Null)
          /\ UNCHANGED pendingConnect
     ELSE /\ a \notin pendingConnect
          /\ Cardinality(pendingConnect) < MaxPending
          /\ pendingConnect' = pendingConnect \cup {a}
          /\ ret' = Awaiting("connectWalletWithSession", arg)
  /\ UNCHANGED <<now, wmClient, pendingDisconnect, svcVars, closedIds, cgVars,
                 connectedAccount, enhanced>>

\* connectWalletWithSession from the end of nitroliteClient.connectWallet
connectWalletWithSessionResume(a, outcome) ==
  /\ a \in pendingConnect
  /\ pendingConnect' = pendingConnect \ {a}
  /\ ret' = IF outcome = "resolved"
            THEN Returned("connectWalletWithSession", [address |-> a], TRUE, NoError, Null)
            ELSE Returned("connectWalletWithSession", [address |-> a], FALSE, outcome, Null)
  /\ UNCHANGED <<now, wmVars, svcVars, closedIds, cgVars, connectedAccount, enhanced>>

\* connectWalletEnhanced(address) with useSessionKey, up to its first await:
\* createWalletSession has run and its result is kept in the frame
connectWalletEnhanced(a) ==
  /\ enhanced = <<>>
  /\ createWalletSessionCall(a)
  /\ enhanced' = <<[address |-> a, at |-> "created", success |-> ret'.success,
                    error |-> ret'.error,
                    sessionKey |-> IF ret'.success THEN ret'.value ELSE <<>>]>>
  /\ UNCHANGED <<now, wmClient, pendingDisconnect, svcVars, closedIds, cgVars,
                 connectedAccount, pendingConnect>>

\* connectWalletEnhanced from the result of createWalletSession: a failed
\* result ends the call, otherwise connectWalletWithSession runs to its await
\* or to the error it throws before it
connectWalletEnhancedValidate ==
  /\ enhanced # <<>>
  /\ enhanced[1].at = "created"
  /\ LET f == enhanced[1]
         arg == [address |-> f.address, key |-> f.sessionKey]
         error == ConnectCheck(sessions, wmClient, f.address, f.sessionKey, now)
     IN
     IF ~f.success
     THEN /\ enhanced' = <<>>
          /\ ret' = Returned("connectWalletEnhanced", [address |-> f.address], FALSE,
                             UserMessage(f.error), Null)
          /\ UNCHANGED <<sessions, deleted>>
     ELSE /\ sessions' = AfterLookup(sessions, f.address, now)
          /\ deleted' = Removed(sessions, sessions')
          /\ IF error # NoError
             THEN /\ enhanced' = <<[f EXCEPT !.at = "returned", !.success = FALSE,
                                             !.error = error]>>
                  /\ ret' = Returned("connectWalletWithSession", arg, FALSE, error, Null)
             ELSE /\ enhanced' = <<[f EXCEPT !.at = "connecting"]>>
                  /\ ret' = Awaiting("connectWalletWithSession", arg)
  /\ UNCHANGED <<now, wmClient, pendingDisconnect, svcVars, closedIds, cgVars,
                 connectedAccount, pendingConnect>>

\* connectWalletEnhanced: its connectWalletWithSession from the end of
\* nitroliteClient.connectWallet
connectWalletEnhancedConnected(outcome) ==
  /\ enhanced # <<>>
  /\ enhanced[1].at = "connecting"
  /\ LET f == enhanced[1]
         arg == [address |-> f.address, key |-> f.sessionKey]
     IN
     IF outcome = "resolved"
     THEN /\ enhanced' = <<[f EXCEPT !.at = "returned"]>>
          /\ ret' = Returned("connectWalletWithSession", arg, TRUE, NoError, Null)
     ELSE /\ enhanced' = <<[f EXCEPT !.at = "returned", !.success = FALSE,
                                     !.error = outcome]>>
          /\ ret' = Returned("connectWalletWithSession", arg, FALSE, outcome, Null)
  /\ UNCHANGED <<now, wmVars, svcVars, closedIds, cgVars, connectedAccount, pendingConnect>>

\* connectWalletEnhanced from the result of connectWalletWithSession
connectWalletEnhancedReturn ==
  /\ enhanced # <<>>
  /\ enhanced[1].at = "returned"
  /\ enhanced' = <<>>
  /\ LET f == enhanced[1] IN
     IF f.success
     THEN /\ connectedAccount' = f.address
          /\ ret' = Returned("connectWalletEnhanced", [address |-> f.address], TRUE,
                             NoError, Null)
     ELSE /\ UNCHANGED connectedAccount
          /\ ret' = Returned("connectWalletEnhanced", [address |-> f.address], FALSE,
                             UserMessage(f.error), Null)
  /\ UNCHANGED <<now, wmVars, svcVars, closedIds, cgVars, pendingConnect>>

\* -------------------------------------------------------------- CerebroGame
GridSize == 8
Cells == 0..(GridSize - 1)
Empty == ""
ParticipantLists == {<<"A", "B">>, <<"A", "B", "C">>}
Players == {"A", "B", "C"}
NoGame == <<>>

\* participants.indexOf(player): the first index, from 0, or -1
IndexOf(ps, player) ==
  IF \E i \in 1..Len(ps) : ps[i] = player
  THEN (CHOOSE i \in 1..Len(ps) : ps[i] = player /\ \A j \in 1..(i - 1) : ps[j] # player) - 1
  ELSE -1

initializeBoard == [i \in Cells |-> [j \in Cells |-> Empty]]

\* the game state initialize() installs
initialGameState(ps, t) ==
  [currentPlayer |-> ps[1],
   board |-> initializeBoard,
   score |-> [p \in {ps[i] : i \in 1..Len(ps)} |-> 0],
   moves |-> <<>>,
   version |-> 0,
   lastUpdate |-> t]

\* initialize() from the end of nitroliteClient.createChannel
cgInitialize(outcome) ==
  /\ IF outcome = "rejected"
     THEN /\ ret' = Returned("initialize", NoArg, FALSE, "createChannel failed", Null)
          /\ UNCHANGED <<channelId, gameState>>
     ELSE /\ channelId' = outcome
          /\ gameState' = <<initialGameState(participants, now)>>
          /\ ret' = Returned("initialize", NoArg, TRUE, NoError, outcome)
  /\ UNCHANGED <<now, participants, pendingMoves, sentUpdate, pendingSync, notCg>>

OutOfBounds(position) ==
  position.x < 0 \/ position.x >= GridSize \/ position.y < 0 \/ position.y >= GridSize

\* faulty variant: the action 'move' is accepted before the bounds are checked
isValidMoveUncheckedMove(g, move) ==
  IF g = NoGame THEN FALSE
  ELSE IF move.action = "move" THEN TRUE
  ELSE IF OutOfBounds(move.position) THEN FALSE
  ELSE CASE move.action = "place" -> g[1].board[move.position.x][move.position.y] = Empty
         [] move.action = "remove" -> g[1].board[move.position.x][move.position.y] # Empty
         [] OTHER -> FALSE

\* faulty variant: 'remove' is accepted on an empty cell too
isValidMoveRemoveAnywhere(g, move) ==
  IF g = NoGame THEN FALSE
  ELSE IF OutOfBounds(move.position) THEN FALSE
  ELSE CASE move.action = "place" -> g[1].board[move.position.x][move.position.y] = Empty
         [] move.action = "remove" -> TRUE
         [] move.action = "move" -> TRUE
         [] OTHER -> FALSE

isValidMove(g, move) ==
  IF g = NoGame THEN FALSE
  ELSE IF OutOfBounds(move.position) THEN FALSE
  ELSE CASE move.action = "place" -> g[1].board[move.position.x][move.position.y] = Empty
         [] move.action = "remove" -> g[1].board[move.position.x][move.position.y] # Empty
         [] move.action = "move" -> TRUE
         [] OTHER -> FALSE

PlacePoints == 10
RemovePoints == 5
MovePoints == 3

\* the board and the score after the switch of updateGameState
BoardAfter(board, move) ==
  CASE move.action = "place" ->
         [board EXCEPT ![move.position.x][move.position.y] = move.player]
    [] move.action = "remove" ->
         [board EXCEPT ![move.position.x][move.position.y] = Empty]
    [] OTHER -> board

\* faulty variant: 'remove' awards the bonus of 'place'
ScoreAfterRemoveAsPlace(score, move) ==
  CASE move.action = "place" -> [score EXCEPT ![move.player] = @ + PlacePoints]
    [] move.action = "remove" -> [score EXCEPT ![move.player] = @ + PlacePoints]
    [] move.action = "move" -> [score EXCEPT ![move.player] = @ + MovePoints]
    [] OTHER -> score

ScoreAfter(score, move) ==
  CASE move.action = "place" -> [score EXCEPT ![move.player] = @ + PlacePoints]
    [] move.action = "remove" -> [score EXCEPT ![move.player] = @ + RemovePoints]
    [] move.action = "move" -> [score EXCEPT ![move.player] = @ + MovePoints]
    [] OTHER -> score

\* participants[(participants.indexOf(player) + 1) % participants.length]
NextPlayer(ps, player) == ps[((IndexOf(ps, player) + 1) % Len(ps)) + 1]

updateGameState(g, move, t) ==
  [currentPlayer |-> NextPlayer(participants, move.player),
   board |-> BoardAfter(g.board, move),
   score |-> ScoreAfter(g.score, move),
   moves |-> Append(g.moves, move),
   version |-> g.version + 1,
   lastUpdate |-> t]

\* faulty variant: the turn check compares the mover with the first participant
NotYourTurnHostOnly(g, move) == move.player # participants[1]

\* move.player !== this.gameState.gameState.currentPlayer
NotYourTurn(g, move) == move.player # g.currentPlayer

\* faulty variant: the update carries the version the game had before the move
ChannelUpdateOldVersion(g, move) ==
  [version |-> g.version - 1,
   data |-> [type |-> "cerebro_move", move |-> move,
             gameState |-> [currentPlayer |-> g.currentPlayer, board |-> g.board,
                            score |-> g.score, moves |-> g.moves]]]

\* the update makeMove passes to nitroliteClient.updateChannel: the version
\* and, in data, the serialized move and inner game state as they are at the
\* call (allocations are the scores of the participants)
ChannelUpdate(g, move) ==
  [version |-> g.version,
   data |-> [type |-> "cerebro_move", move |-> move,
             gameState |-> [currentPlayer |-> g.currentPlayer, board |-> g.board,
                            score |-> g.score, moves |-> g.moves]]]

\* makeMove(move) up to its await on nitroliteClient.updateChannel: a rejected
\* move returns at once, an accepted one is applied and the call suspends.
makeMove(move) ==
  /\ IF channelId = Null \/ gameState = NoGame
     THEN /\ ret' = Returned("makeMove", move, FALSE, "Game not initialized", Null)
          /\ UNCHANGED <<gameState, pendingMoves, sentUpdate>>
     ELSE IF NotYourTurn(gameState[1], move)
     THEN /\ ret' = Returned("makeMove", move, FALSE, "Not your turn", Null)
          /\ UNCHANGED <<gameState, pendingMoves, sentUpdate>>
     ELSE IF ~isValidMove(gameState, move)
     THEN /\ ret' = Returned("makeMove", move, FALSE, "Invalid move", Null)
          /\ UNCHANGED <<gameState, pendingMoves, sentUpdate>>
     ELSE /\ Len(gameState[1].moves) < MaxMoves
          /\ pendingMoves < MaxPending
          /\ gameState' = <<updateGameState(gameState[1], move, now)>>
          /\ pendingMoves' = pendingMoves + 1
          /\ sentUpdate' = <<ChannelUpdate(gameState'[1], move)>>
          /\ ret' = Awaiting("makeMove", move)
  /\ UNCHANGED <<now, participants, channelId, pendingSync, notCg>>

\* faulty variant: a rejected update takes the move back out of the log and
\* the version
makeMoveResumeRollback(outcome) ==
  /\ pendingMoves > 0
  /\ pendingMoves' = pendingMoves - 1
  /\ IF outcome = "resolved"
     THEN /\ ret' = Returned("makeMove", NoArg, TRUE, NoError, Null)
          /\ UNCHANGED gameState
     ELSE /\ ret' = Returned("makeMove", NoArg, FALSE, outcome, Null)
          /\ gameState' = <<[gameState[1] EXCEPT
                               !.moves = SubSeq(@, 1, Len(@) - 1),
                               !.version = @ - 1]>>
  /\ UNCHANGED <<now, participants, channelId, sentUpdate, pendingSync, notCg>>

\* makeMove from the end of nitroliteClient.updateChannel: the call returns
\* the game state as it is then, or the error of the rejected update.
makeMoveResume(outcome) ==
  /\ pendingMoves > 0
  /\ pendingMoves' = pendingMoves - 1
  /\ ret' = IF outcome = "resolved"
            THEN Returned("makeMove", NoArg, TRUE, NoError, Null)
            ELSE Returned("makeMove", NoArg, FALSE, outcome, Null)
  /\ UNCHANGED <<now, participants, channelId, gameState, sentUpdate, pendingSync, notCg>>

\* syncGameState() up to its await on nitroliteClient.getChannel: the response
\* on its way is the channel as the network has it then, the last update
\* passed to it, or a channel without state when there was none
syncGameState ==
  /\ IF channelId = Null
     THEN /\ ret' = Returned("syncGameState", NoArg, FALSE, "Game not initialized", Null)
          /\ UNCHANGED pendingSync
     ELSE /\ pendingSync = <<>>
          /\ pendingSync' = <<sentUpdate>>
          /\ ret' = Awaiting("syncGameState", NoArg)
  /\ UNCHANGED <<now, participants, channelId, gameState, pendingMoves, sentUpdate, notCg>>

\* syncGameState from the end of nitroliteClient.getChannel: a response with
\* state replaces the game state by the parsed data and the channel's version
syncGameStateResume(outcome) ==
  /\ pendingSync # <<>>
  /\ pendingSync' = <<>>
  /\ LET channelInfo == pendingSync[1] IN
     IF outcome # "resolved"
     THEN /\ ret' = Returned("syncGameState", NoArg, FALSE, outcome, Null)
          /\ UNCHANGED gameState
     ELSE /\ ret' = Returned("syncGameState", NoArg, TRUE, NoError, Null)
          /\ IF channelInfo # <<>> /\ channelInfo[1].data.type = "cerebro_move"
             THEN gameState' =
                    <<[currentPlayer |-> channelInfo[1].data.gameState.currentPlayer,
                       board |-> channelInfo[1].data.gameState.board,
                       score |-> channelInfo[1].data.gameState.score,
                       moves |-> channelInfo[1].data.gameState.moves,
                       version |-> channelInfo[1].version,
                       lastUpdate |-> now]>>
             ELSE UNCHANGED gameState
  /\ UNCHANGED <<now, participants, channelId, pendingMoves, sentUpdate, notCg>>

Positions ==
  {[x |-> 0, y |-> 0], [x |-> 1, y |-> 0], [x |-> -1, y |-> 0],
   [x |-> GridSize, y |-> 0], [x |-> 0, y |-> -1], [x |-> 0, y |-> GridSize]}
Actions == {"place", "remove", "move", "pass"}
Moves == [player : Players, position : Positions, action : Actions]

\* The clock advances between handlers.
Tick(bound) ==
  /\ now < bound
  /\ now' = now + 1
  /\ ret' = NoCall
  /\ UNCHANGED <<svcVars, closedIds, wmVars, cgVars, utVars>>

\* ------------------------------------------------------------ specifications
Init ==
  /\ now = 0
  /\ ret = NoCall
  /\ isConnected = FALSE
  /\ currentAccount = Null
  /\ activeChannels = EmptyMap
  /\ channelStates = EmptyMap
  /\ closedIds = {}
  /\ sessions = <<>>
  /\ wmClient = Null
  /\ pendingDisconnect = {}
  /\ deleted = <<>>
  /\ participants \in ParticipantLists
  /\ channelId = Null
  /\ gameState = NoGame
  /\ pendingMoves = 0
  /\ sentUpdate = <<>>
  /\ pendingSync = <<>>
  /\ connectedAccount = Null
  /\ pendingConnect = {}
  /\ enhanced = <<>>

\* the methods of YellowNetworkService other than closeStateChannel
ServiceCalls ==
  \/ Tick(MaxNonce)
  \/ \E outcome \in {"resolved", "not initialized", "User rejected"} : connect(outcome)
  \/ \E outcome \in {"resolved", "Network error"} : disconnect(outcome)
  \/ \E ps \in Participants : createStateChannel(ps)
  \/ \E id \in ChannelIds, s \in StateUpdates : updateChannelState(id, s)
  \/ \E id \in ChannelIds : checkpointChannel(id)
  \/ \E id \in ChannelIds : challengeChannel(id)

NextChannel ==
  \/ ServiceCalls
  \/ \E id \in ChannelIds, s \in StateUpdates :
       closeStateChannel(id, s) /\ UNCHANGED closedIds

SpecChannel == Init /\ [][NextChannel]_vars

\* The service with the utils-level wallet functions called directly.
NextWallet ==
  \/ ServiceCalls
  \/ \E outcome \in {"resolved", "not initialized", "User rejected"} : utilsConnectWallet(outcome)
  \/ \E outcome \in {"resolved", "Network error"} : utilsDisconnectWallet(outcome)
  \/ \E outcome \in {"resolved", "Transaction failed"} : sendPayment(outcome)

SpecWallet == Init /\ [][NextWallet]_vars

\* The channel registry with the history of the identifiers closed so far.
NextChannelHistory ==
  \/ ServiceCalls
  \/ \E id \in ChannelIds, s \in StateUpdates :
       /\ closeStateChannel(id, s)
       /\ closedIds' = IF ret'.thrown THEN closedIds ELSE closedIds \cup {id}

SpecChannelHistory == Init /\ [][NextChannelHistory]_vars

\* The store of a manager without a client: disconnectWallet has no await.
NextSession ==
  \/ Tick(MaxTime)
  \/ \E a \in Addresses : createWalletSession(a)
  \/ \E a \in Addresses : getActiveSession(a)
  \/ \E a \in Addresses : \E key \in SessionKeys(a) : validateSessionKey(a, key)
  \/ \E a \in Addresses : disconnectWallet(a)
  \/ cleanupExpiredSessions

SpecSession == Init /\ [][NextSession]_vars

\* The store of a manager that is given its client at some point: from then
\* on disconnectWallet awaits the client's disconnect before it deletes.
NextSessionClient ==
  \/ NextSession
  \/ initialize
  \/ \E a \in Addresses, outcome \in {"resolved", "Network error"} :
        disconnectWalletResume(a, outcome)

SpecSessionClient == Init /\ [][NextSessionClient]_vars

\* Connecting with a session key: the store, the manager's client and the
\* utils-level connectWalletEnhanced.
NextConnect ==
  \/ Tick(MaxTime)
  \/ initialize
  \/ \E a \in ConnectAddresses : connectWalletEnhanced(a)
  \/ connectWalletEnhancedValidate
  \/ \E outcome \in {"resolved", "User rejected"} : connectWalletEnhancedConnected(outcome)
  \/ connectWalletEnhancedReturn
  \/ \E a \in ConnectAddresses : \E key \in SessionKeys(a) : connectWalletWithSession(a, key)
  \/ \E a \in ConnectAddresses, outcome \in {"resolved", "User rejected"} :
        connectWalletWithSessionResume(a, outcome)
  \/ \E a \in ConnectAddresses : disconnectWallet(a)
  \/ \E a \in ConnectAddresses, outcome \in {"resolved", "Network error"} :
        disconnectWalletResume(a, outcome)

SpecConnect == Init /\ [][NextConnect]_vars

NextCerebro ==
  \/ \E outcome \in {"ch1", "rejected"} : cgInitialize(outcome)
  \/ \E move \in Moves : makeMove(move)
  \/ \E outcome \in {"resolved", "Channel update failed"} : makeMoveResume(outcome)

SpecCerebro == Init /\ [][NextCerebro]_vars

\* The game with syncGameState.
SyncMoves ==
  {move \in Moves : /\ move.position \in {[x |-> 0, y |-> 0], [x |-> 1, y |-> 0]}
                    /\ move.action \in {"place", "move"}}
NextCerebroSync ==
  \/ \E outcome \in {"ch1", "rejected"} : cgInitialize(outcome)
  \/ \E move \in SyncMoves : makeMove(move)
  \/ \E outcome \in {"resolved", "Channel update failed"} : makeMoveResume(outcome)
  \/ syncGameState
  \/ \E outcome \in {"resolved", "Network error"} : syncGameStateResume(outcome)

SpecCerebroSync == Init /\ [][NextCerebroSync]_vars

\* The game with the participants lists the constructor accepts, a list that
\* names a participant twice among them.
TurnLists == {<<"A", "B">>, <<"A", "A", "B">>}
InitTurns ==
  /\ now = 0
  /\ ret = NoCall
  /\ isConnected = FALSE
  /\ currentAccount = Null
  /\ activeChannels = EmptyMap
  /\ channelStates = EmptyMap
  /\ closedIds = {}
  /\ sessions = <<>>
  /\ wmClient = Null
  /\ pendingDisconnect = {}
  /\ deleted = <<>>
  /\ participants \in TurnLists
  /\ channelId = Null
  /\ gameState = NoGame
  /\ pendingMoves = 0
  /\ sentUpdate = <<>>
  /\ pendingSync = <<>>
  /\ connectedAccount = Null
  /\ pendingConnect = {}
  /\ enhanced = <<>>

SpecCerebroTurns == InitTurns /\ [][NextCerebro]_vars

\* ===================================================================== claims
\* ----------------------------------------------------- channel registry

\* C1: for a channel in the registry (one with its configuration and a
\* stored state record), updateChannelState(id, s) succeeds iff
\* s.version is greater than the stored version, and then stores s; with a
\* version equal to or less than the stored one it fails with 'Invalid state
\* version' and leaves the stored state records unchanged.
C1_UpdateNeedsLargerVersion ==
  [][(/\ ret'.op = "updateChannelState"
      /\ MapHas(activeChannels, ret'.arg.id)
      /\ MapHas(channelStates, ret'.arg.id)) =>
       LET id == ret'.arg.id
           s == ret'.arg.state
       IN
       /\ (~ret'.thrown) <=> (s.version > channelStates[id].version)
       /\ (s.version > channelStates[id].version) =>
            /\ ret'.success
            /\ channelStates' = MapSet(channelStates, id, s)
       /\ (s.version <= channelStates[id].version) =>
            /\ ret'.error = "Invalid state version"
            /\ channelStates' = channelStates
            /\ activeChannels' = activeChannels]_vars

\* C1, reached: after create at version 0 an update with version 1 was
\* accepted and a second update with version 1 was refused.
C1_Witness ==
  /\ ret.op = "updateChannelState"
  /\ ret.thrown
  /\ ret.error = "Invalid state version"
  /\ ret.arg.state.version = 1
  /\ MapHas(channelStates, ret.arg.id)
  /\ channelStates[ret.arg.id].version = 1

\* C2: the stored version of a channel never decreases, and the stored state
\* record of a channel changes only to one with a strictly larger version.
C2_StoredVersionOnlyGrows ==
  [][\A id \in (DOMAIN channelStates) \cap (DOMAIN channelStates') :
       /\ channelStates'[id].version >= channelStates[id].version
       /\ (channelStates'[id] # channelStates[id]) =>
            channelStates'[id].version > channelStates[id].version]_vars

\* C6: closeStateChannel on an identifier not in the registry fails with
\* 'Channel not found' and changes nothing; on a known identifier it removes
\* the channel whatever finalState is; and every later updateChannelState,
\* checkpointChannel, challengeChannel or closeStateChannel on an identifier
\* that was closed fails with 'Channel not found'.
C6_ClosedChannelStaysClosed ==
  [][/\ (ret'.op = "closeStateChannel") =>
          IF MapHas(activeChannels, ret'.arg.id)
          THEN /\ ~ret'.thrown
               /\ ~MapHas(activeChannels', ret'.arg.id)
               /\ ~MapHas(channelStates', ret'.arg.id)
          ELSE /\ ret'.thrown /\ ret'.error = "Channel not found"
               /\ UNCHANGED <<activeChannels, channelStates>>
     /\ (/\ ret'.op \in {"updateChannelState", "checkpointChannel",
                         "challengeChannel", "closeStateChannel"}
         /\ ret'.arg.id \in closedIds) =>
          ~ret'.success /\ ret'.error = "Channel not found"]_vars

\* -------------------------------------------------------- session store

\* the entries of a store, as a set
Entries(ss) == {ss[i] : i \in 1..Len(ss)}

\* C3: the store never holds more than maxSessions entries; a
\* createWalletSession(a) that needs a new entry (a has no stored entry) while
\* the store is at capacity removes exactly one entry, one with the smallest
\* createdAt, expired or not, and keeps every other entry.
C3_CapacityEvictsOldest ==
  /\ [](Len(sessions) <= MaxSessions)
  /\ [][(/\ ret'.op = "createWalletSession"
         /\ ~SessionHas(sessions, ret'.arg.address)
         /\ Len(sessions) >= MaxSessions) =>
          \E old \in Entries(sessions) :
            /\ \A other \in Entries(sessions) : old.createdAt <= other.createdAt
            /\ Entries(sessions') \ Entries(SessionGet(sessions', ret'.arg.address))
                 = Entries(sessions) \ {old}
            /\ SessionHas(sessions', ret'.arg.address)
            /\ Len(sessions') = Len(sessions)]_vars

\* C3, reached: a full store, from which the last createWalletSession evicted
\* another address's entry that had not expired.
C3_Witness ==
  /\ ret.op = "createWalletSession"
  /\ Len(sessions) = MaxSessions
  /\ Len(deleted) = 1
  /\ deleted[1].address # ret.arg.address
  /\ ~SessionHas(sessions, deleted[1].address)
  /\ now <= deleted[1].expiresAt

\* a's stored session is present and has not expired
Unexpired(ss, a, t) ==
  /\ SessionHas(ss, a)
  /\ SessionGet(ss, a)[1].isActive
  /\ t <= SessionGet(ss, a)[1].expiresAt

\* C4: createWalletSession(a) returns success with the credential stored for
\* a after the call; when a's session exists and has not expired the call
\* returns that session's credential and leaves the store unchanged; and no
\* step changes a stored session other than by removing it (expiry,
\* disconnect, eviction) or by a createWalletSession for its address after it
\* expired. So two calls with a's session kept between them return the same
\* credential, and the second leaves the store unchanged.
C4_CreateIsIdempotent ==
  [][/\ (ret'.op = "createWalletSession") =>
          LET a == ret'.arg.address IN
          /\ ret'.success
          /\ SessionHas(sessions', a)
          /\ ret'.value = SessionGet(sessions', a)[1].sessionKey
          /\ Unexpired(sessions, a, now) =>
               /\ sessions' = sessions
               /\ ret'.value = SessionGet(sessions, a)[1].sessionKey
     /\ \A a \in Addresses :
          (/\ SessionHas(sessions, a) /\ SessionHas(sessions', a)
           /\ SessionGet(sessions', a) # SessionGet(sessions, a)) =>
            /\ ret'.op = "createWalletSession"
            /\ ret'.arg.address = a
            /\ ~Unexpired(sessions, a, now)]_vars

\* C4, reached: a createWalletSession at a later instant returned the
\* credential of the session created before (a new key carries the time now).
C4_Witness ==
  /\ ret.op = "createWalletSession"
  /\ ret.success
  /\ ret.value[3] < now
  /\ deleted = <<>>
  /\ \E i \in 1..Len(sessions) :
       sessions[i].address = ret.arg.address /\ sessions[i].sessionKey = ret.value

\* C5: getActiveSession never returns an expired session: once now >
\* expiresAt it returns null for that address (and the entry is gone), and
\* validateSessionKey returns false for every credential of an address whose
\* session is expired or gone, the old credential included.
C5_ExpiredNeverActive ==
  [][/\ (ret'.op = "getActiveSession") =>
          /\ ret'.value # NoSession =>
               /\ ret'.value[1].address = ret'.arg.address
               /\ now <= ret'.value[1].expiresAt
          /\ ~Unexpired(sessions, ret'.arg.address, now) =>
               ret'.value = NoSession /\ ~SessionHas(sessions', ret'.arg.address)
     /\ (/\ ret'.op = "validateSessionKey"
         /\ ~Unexpired(sessions, ret'.arg.address, now)) =>
          ret'.value = FALSE /\ ~SessionHas(sessions', ret'.arg.address)]_vars

\* C5, reached: getActiveSession found an expired session, deleted it and
\* returned null.
C5_Witness ==
  /\ ret.op = "getActiveSession"
  /\ ret.value = NoSession
  /\ Len(deleted) = 1
  /\ deleted[1].address = ret.arg.address
  /\ now > deleted[1].expiresAt

\* ------------------------------------------------------------- Cerebro

GameReady == channelId # Null /\ gameState # NoGame
Outside(position) == position.x \notin Cells \/ position.y \notin Cells
\* the step is a call of makeMove(ret'.arg), up to its await
MoveCalled == ret'.op = "makeMove" /\ pendingMoves' >= pendingMoves

\* C7: makeMove changes the game only for the current-turn participant: a
\* move of another player is rejected with 'Not your turn' and the board,
\* the scores, the move log, currentPlayer and the version stay as they were.
C7_OnlyCurrentPlayerMoves ==
  [][(MoveCalled /\ GameReady) =>
          /\ (ret'.arg.player # gameState[1].currentPlayer) =>
               /\ ~ret'.success
               /\ ret'.error = "Not your turn"
               /\ gameState' = gameState
               /\ pendingMoves' = pendingMoves
          /\ (gameState' # gameState) => ret'.arg.player = gameState[1].currentPlayer]_vars

\* C7, reached: after an accepted move a call was rejected with 'Not your turn'.
C7_Witness ==
  /\ ret.op = "makeMove"
  /\ ret.error = "Not your turn"
  /\ gameState # NoGame
  /\ Len(gameState[1].moves) > 0

\* C8: isValidMove is false for every move with x or y outside [0, 8), for
\* place, remove and move alike; such a move of the current player is
\* rejected as 'Invalid move' and changes nothing, and the board stays the
\* 8x8 grid.
C8_OutOfBoundsRejected ==
  /\ [](gameState # NoGame =>
          /\ DOMAIN gameState[1].board = Cells
          /\ \A x \in Cells : DOMAIN gameState[1].board[x] = Cells
          /\ \A move \in Moves :
               Outside(move.position) => ~isValidMove(gameState, move))
  /\ [][(MoveCalled /\ GameReady /\ Outside(ret'.arg.position)) =>
          /\ ~ret'.success
          /\ gameState' = gameState
          /\ (ret'.arg.player = gameState[1].currentPlayer) =>
               ret'.error = "Invalid move"]_vars

\* C8, reached: the current player's move to a cell outside the grid was
\* rejected as invalid, with pieces already on the board.
C8_Witness ==
  /\ ret.op = "makeMove"
  /\ ret.error = "Invalid move"
  /\ Outside(ret.arg.position)
  /\ ret.arg.action \in {"place", "remove", "move"}
  /\ gameState # NoGame
  /\ ret.arg.player = gameState[1].currentPlayer
  /\ \E x \in Cells, y \in Cells : gameState[1].board[x][y] # Empty

\* the validity the claim gives an in-bounds move on a board
ClaimedValid(board, move) ==
  CASE move.action = "place" -> board[move.position.x][move.position.y] = Empty
    [] move.action = "remove" -> board[move.position.x][move.position.y] # Empty
    [] move.action = "move" -> TRUE

\* C9: for an in-bounds move, isValidMove is true for place iff the cell is
\* empty, for remove iff the cell is not empty, and always for move; the
\* current player's in-bounds move is rejected as 'Invalid move' exactly
\* when that fails.
C9_ValidityByAction ==
  /\ [](gameState # NoGame =>
          \A move \in Moves :
            (~Outside(move.position) /\ move.action \in {"place", "remove", "move"}) =>
              (isValidMove(gameState, move) <=> ClaimedValid(gameState[1].board, move)))
  /\ [][(/\ MoveCalled /\ GameReady
         /\ ~Outside(ret'.arg.position)
         /\ ret'.arg.action \in {"place", "remove", "move"}
         /\ ret'.arg.player = gameState[1].currentPlayer) =>
          ((ret'.error = "Invalid move") <=> ~ClaimedValid(gameState[1].board, ret'.arg))]_vars

\* C9, reached: A has placed at (0,0), it is B's turn, and B's place at (0,0)
\* was rejected as invalid.
C9_Witness ==
  /\ ret.op = "makeMove"
  /\ ret.error = "Invalid move"
  /\ ret.arg = [player |-> "B", position |-> [x |-> 0, y |-> 0], action |-> "place"]
  /\ gameState # NoGame
  /\ gameState[1].moves = <<[player |-> "A", position |-> [x |-> 0, y |-> 0], action |-> "place"]>>
  /\ gameState[1].board[0][0] = "A"
  /\ gameState[1].currentPlayer = "B"

\* the participant after player in the list, wrapping around
Successor(ps, player) ==
  LET i == CHOOSE k \in 1..Len(ps) : ps[k] = player
  IN  IF i = Len(ps) THEN ps[1] ELSE ps[i + 1]

\* C10: an accepted move applies all its effects in one step: place sets the
\* cell to the mover and adds 10 to the mover's score, remove clears the cell
\* and adds 5, move adds 3 and leaves the board; the move is appended to the
\* log, currentPlayer becomes the next participant in the order of the list,
\* and the version grows by exactly 1.
C10_AcceptedMoveEffects ==
  [][(MoveCalled /\ gameState # NoGame /\ (ret'.value = "awaiting" \/ gameState' # gameState)) =>
       LET move == ret'.arg
           g == gameState[1]
           h == gameState'[1]
           x == move.position.x
           y == move.position.y
           bonus == CASE move.action = "place" -> 10
                      [] move.action = "remove" -> 5
                      [] move.action = "move" -> 3
       IN
       /\ move.action \in {"place", "remove", "move"}
       /\ h.board = CASE move.action = "place" -> [g.board EXCEPT ![x][y] = move.player]
                      [] move.action = "remove" -> [g.board EXCEPT ![x][y] = Empty]
                      [] move.action = "move" -> g.board
       /\ h.score = [g.score EXCEPT ![move.player] = g.score[move.player] + bonus]
       /\ h.moves = Append(g.moves, move)
       /\ h.currentPlayer = Successor(participants, move.player)
       /\ h.version = g.version + 1]_vars

\* C10, reached: with participants [A, B], A has placed at (0,0): the cell
\* is A's, A has 10 points, the current player is B and the version is 1.
C10_Witness ==
  /\ participants = <<"A", "B">>
  /\ ret = Awaiting("makeMove", [player |-> "A", position |-> [x |-> 0, y |-> 0], action |-> "place"])
  /\ gameState # NoGame
  /\ gameState[1].board[0][0] = "A"
  /\ gameState[1].score["A"] = 10
  /\ gameState[1].currentPlayer = "B"
  /\ gameState[1].version = 1
  /\ Len(gameState[1].moves) = 1

\* ======================================================= claims, second group
\* -------------------------------------------------------- session store

\* C11: validateSessionKey(a, key) returns true iff a's session is stored
\* and not expired and its credential equals key; it never throws, and it
\* returns false for every key when a has no active session.
C11_ValidateIffActiveAndEqual ==
  [][(ret'.op = "validateSessionKey") =>
       LET a == ret'.arg.address
           key == ret'.arg.key
       IN
       /\ ~ret'.thrown
       /\ ret'.value = (/\ Unexpired(sessions, a, now)
                        /\ SessionGet(sessions, a)[1].sessionKey = key)
       /\ ~Unexpired(sessions, a, now) => ret'.value = FALSE]_vars

\* C11, reached: a key other than the credential of the address's active
\* session was presented and refused.
C11_Witness ==
  /\ ret.op = "validateSessionKey"
  /\ ret.value = FALSE
  /\ Unexpired(sessions, ret.arg.address, now)
  /\ SessionGet(sessions, ret.arg.address)[1].sessionKey # ret.arg.key

\* C12: a disconnectWallet(a) call that has ended has not thrown and has
\* left no session for a, whatever the outcome of the client's disconnect;
\* when a had no session the call reports no error and the store is unchanged.
C12_DisconnectAlwaysDeletes ==
  [][(ret'.op = "disconnectWallet" /\ ret'.value # "awaiting") =>
       /\ ~ret'.thrown
       /\ ~SessionHas(sessions', ret'.arg.address)
       /\ ~SessionHas(sessions, ret'.arg.address) =>
            /\ ret'.success
            /\ sessions' = sessions]_vars

\* C13: cleanupExpiredSessions can be called in every state; it deletes
\* every session with now > expiresAt and no other, keeps the order of the
\* rest, and a second call right after the first changes nothing.
C13_CleanupDeletesExactlyExpired ==
  /\ [](ENABLED cleanupExpiredSessions)
  /\ [][(ret'.op = "cleanupExpiredSessions") =>
          /\ ~ret'.thrown
          /\ Entries(sessions') = {s \in Entries(sessions) : now <= s.expiresAt}
          /\ Len(sessions') = Cardinality(Entries(sessions'))
          /\ \A i, j \in 1..Len(sessions') :
               (i < j) => \E k, l \in 1..Len(sessions) :
                 k < l /\ sessions[k] = sessions'[i] /\ sessions[l] = sessions'[j]
          /\ (ret.op = "cleanupExpiredSessions") => sessions' = sessions]_vars

\* C13, reached: a cleanup deleted an expired session and kept an unexpired one.
C13_Witness ==
  /\ ret.op = "cleanupExpiredSessions"
  /\ Len(deleted) > 0
  /\ \A i \in 1..Len(deleted) : now > deleted[i].expiresAt
  /\ Len(sessions) > 0
  /\ \A i \in 1..Len(sessions) : now <= sessions[i].expiresAt

\* C14: getActiveSession(a) on a stored but expired session deletes that
\* entry: the store shrinks by exactly one, a has no entry left, and the
\* other entries are unchanged and in the same order; on a stored unexpired
\* session or on an absent address it changes nothing.
C14_LookupPurgesOnlyExpiredEntry ==
  [][(ret'.op = "getActiveSession") =>
       LET a == ret'.arg.address IN
       IF SessionHas(sessions, a) /\ now > SessionGet(sessions, a)[1].expiresAt
       THEN /\ Len(sessions') = Len(sessions) - 1
            /\ ~SessionHas(sessions', a)
            /\ sessions' = SelectSeq(sessions, LAMBDA s : s.address # a)
            /\ ret'.value = NoSession
       ELSE sessions' = sessions]_vars

\* C14, reached: a lookup deleted the expired entry of its address from a
\* store that held another address's entry too, which is still there.
C14_Witness ==
  /\ ret.op = "getActiveSession"
  /\ Len(deleted) = 1
  /\ deleted[1].address = ret.arg.address
  /\ now > deleted[1].expiresAt
  /\ Len(sessions) = 1
  /\ sessions[1].address # ret.arg.address

\* ----------------------------------------------------- channel registry

\* C15: a createStateChannel that returns an identifier returns one that
\* was in neither map before, and stores the participants and a state
\* record at version 0 under it; no createStateChannel step, failed or not,
\* changes the entry of a channel that was already in the registry.
C15_CreateNeverCollides ==
  [][(ret'.op = "createStateChannel") =>
       /\ \A id \in DOMAIN activeChannels :
            MapHas(activeChannels', id) /\ activeChannels'[id] = activeChannels[id]
       /\ \A id \in DOMAIN channelStates :
            MapHas(channelStates', id) /\ channelStates'[id] = channelStates[id]
       /\ (~ret'.thrown) =>
            /\ ~MapHas(activeChannels, ret'.value)
            /\ ~MapHas(channelStates, ret'.value)
            /\ activeChannels'[ret'.value].participants = ret'.arg.participants
            /\ channelStates'[ret'.value].version = 0]_vars

\* C16: the participants stored under a channel identifier never change
\* while the identifier stays in the registry, whatever operation runs
\* (update, checkpoint, challenge, or another create).
C16_ParticipantsImmutable ==
  [][\A id \in (DOMAIN activeChannels) \cap (DOMAIN activeChannels') :
       activeChannels'[id].participants = activeChannels[id].participants]_vars

\* C17: no operation ends by throwing: every call that has ended returned
\* a result (with its success and error fields) to its caller.
C17_NoOperationThrows == ~ret.thrown

\* C18: a create that follows the deletion of the address's session (by
\* the purge of the same call, or by the call just before: disconnect,
\* eviction, cleanup, lookup) installs a new session whose credential differs
\* from the deleted one, so that the deleted credential no longer validates.
C18_DeletedKeyNeverValidAgain ==
  [][(ret'.op = "createWalletSession" /\ ret'.success
      /\ ~Unexpired(sessions, ret'.arg.address, now)) =>
       LET a == ret'.arg.address
           gone == {d \in Entries(deleted) \cup Entries(deleted') : d.address = a}
           new == SessionGet(sessions', a)
       IN
       /\ new # NoSession
       /\ new[1].createdAt = now
       /\ new[1].expiresAt = now + SessionTimeout
       /\ new[1].sessionKey = ret'.value
       /\ \A d \in gone : new[1].sessionKey # d.sessionKey]_vars

\* C19 (as the code behaves): updateChannelState reads the stored version,
\* tests it and writes in one step, with no suspension in between, so two
\* calls never read the same stored version: when an update for a channel
\* has been accepted, the next call for that channel carrying the same
\* version is refused with 'Invalid state version' and the first update
\* stays stored.
C19_SameVersionAcceptedOnce ==
  /\ [](ret.op = "updateChannelState" => ret.value # "awaiting")
  /\ [][(/\ ret.op = "updateChannelState" /\ ~ret.thrown
         /\ ret'.op = "updateChannelState"
         /\ ret'.arg.id = ret.arg.id
         /\ ret'.arg.state.version = ret.arg.state.version) =>
          /\ ret'.thrown
          /\ ret'.error = "Invalid state version"
          /\ channelStates'[ret.arg.id] = ret.arg.state]_vars

\* C19, reached: an update was accepted and stored, and a second update with
\* the same version and another payload was then refused.
C19_Witness ==
  /\ ret.op = "updateChannelState"
  /\ ret.thrown
  /\ ret.error = "Invalid state version"
  /\ MapHas(channelStates, ret.arg.id)
  /\ channelStates[ret.arg.id].version = ret.arg.state.version
  /\ channelStates[ret.arg.id].version > 0
  /\ channelStates[ret.arg.id].data # ret.arg.state.data

\* C19 (as stated): of two updateChannelState calls for one channel that
\* carry the same version, the second passes the version check as well once
\* the first has been accepted.
C19_SameVersionBothAccepted ==
  [][(/\ ret.op = "updateChannelState" /\ ~ret.thrown
      /\ ret'.op = "updateChannelState"
      /\ ret'.arg.id = ret.arg.id
      /\ ret'.arg.state.version = ret.arg.state.version) =>
       ~ret'.thrown]_vars

C21_ChallengeReportsClientOutcome ==
  \A id \in DOMAIN activeChannels :
    ENABLED (challengeChannel(id) /\ ~ret'.success)

\* ------------------------------------------------- connecting with a key

\* a step in which connectWalletWithSession starts, called directly or by
\* connectWalletEnhanced (and not one in which it resumes from the client)
ConnectStarts ==
  /\ ret'.op = "connectWalletWithSession"
  /\ pendingConnect \subseteq pendingConnect'
  /\ ~(enhanced # <<>> /\ enhanced[1].at = "connecting")

\* C22: connectWalletWithSession(address, key) with a key that does not
\* validate (no session, an expired session or another credential) returns
\* {success: false, error: 'Invalid or expired session key'} and no call
\* to the external client is started; a connectWalletEnhanced whose
\* connectWalletWithSession failed ends in failure and leaves
\* connectedAccount unchanged, which only a successful connectWalletEnhanced
\* sets.
C22_InvalidKeyNeverConnects ==
  /\ [][ConnectStarts =>
          LET a == ret'.arg.address
              key == ret'.arg.key
              valid == /\ Unexpired(sessions, a, now)
                       /\ SessionGet(sessions, a)[1].sessionKey = key
          IN
          (~valid) =>
            /\ ret' = Returned("connectWalletWithSession", ret'.arg, FALSE,
                               "Invalid or expired session key", Null)
            /\ pendingConnect' = pendingConnect
            /\ connectedAccount' = connectedAccount
            /\ (enhanced # <<>> /\ enhanced' # enhanced) =>
                 /\ enhanced'[1].at = "returned"
                 /\ ~enhanced'[1].success
                 /\ enhanced'[1].error = "Invalid or expired session key"]_vars
  /\ [][(enhanced # <<>> /\ enhanced' = <<>> /\ ~enhanced[1].success) =>
          /\ connectedAccount' = connectedAccount
          /\ ret'.op = "connectWalletEnhanced"
          /\ ~ret'.success
          /\ ~ret'.thrown]_vars
  /\ [][(connectedAccount' # connectedAccount) =>
          /\ enhanced # <<>>
          /\ enhanced[1].at = "returned"
          /\ enhanced[1].success
          /\ ret'.success]_vars

\* C22, reached: a connectWalletEnhanced whose session was gone when its key
\* was validated has ended in failure, and no account is connected.
C22_Witness ==
  /\ ret.op = "connectWalletEnhanced"
  /\ ~ret.success
  /\ ret.error = "Your session has expired"
  /\ connectedAccount = Null
  /\ enhanced = <<>>
  /\ pendingConnect = {}

\* C23: the two registry maps always have the same key set, so for an
\* identifier in activeChannels the stored state is always found: no call of
\* updateChannelState or checkpointChannel ends with 'Channel state not
\* found'.
C23_MapsHaveSameKeys ==
  /\ [](DOMAIN activeChannels = DOMAIN channelStates)
  /\ [](ret.error # "Channel state not found")
  /\ [][DOMAIN activeChannels' = DOMAIN channelStates']_vars

\* C23, reached: with one channel created and another created and closed,
\* both maps hold exactly the remaining identifier, and a checkpoint of it
\* has found its stored state.
C23_Witness ==
  /\ ret.op = "checkpointChannel"
  /\ ret.success
  /\ DOMAIN activeChannels = {ChannelIdOf(1)}
  /\ DOMAIN channelStates = {ChannelIdOf(1)}

\* ------------------------------------------------------------ Cerebro turns

\* C24: in a game whose list has at least two distinct participants, the
\* move log never contains two consecutive moves by the same participant and
\* currentPlayer is always a member of the participants list.
C24_TurnsAlternate ==
  (gameState # NoGame /\ Cardinality({participants[i] : i \in 1..Len(participants)}) >= 2) =>
    /\ \E i \in 1..Len(participants) : participants[i] = gameState[1].currentPlayer
    /\ \A i \in 1..(Len(gameState[1].moves) - 1) :
         gameState[1].moves[i].player # gameState[1].moves[i + 1].player

\* C25: in every state reached through initialize and makeMove, version
\* is the number of entries of the move log, and the k-th move accepted
\* since initialize passes version k to the external updateChannel, with
\* the log of the k moves in the order they were accepted.
C25_VersionCountsMoves ==
  /\ [](gameState # NoGame => gameState[1].version = Len(gameState[1].moves))
  /\ [][(ret'.op = "makeMove" /\ ret'.value = "awaiting") =>
          LET g == gameState[1]
              h == gameState'[1]
              sent == sentUpdate'[1]
          IN
          /\ sentUpdate' # <<>>
          /\ sent.version = g.version + 1
          /\ sent.version = Len(h.moves)
          /\ sent.data.move = ret'.arg
          /\ sent.data.gameState.moves = Append(g.moves, ret'.arg)
          /\ Len(g.moves) = 0 => sent.version = 1
          /\ (sentUpdate # <<>> /\ sentUpdate[1].data.gameState.moves = g.moves) =>
               sent.version = sentUpdate[1].version + 1]_vars

\* C25, reached: the second move accepted since initialize has passed
\* version 2, and the game is at version 2 with two moves in its log.
C25_Witness ==
  /\ ret.op = "makeMove"
  /\ ret.value = "awaiting"
  /\ sentUpdate # <<>>
  /\ sentUpdate[1].version = 2
  /\ gameState[1].version = 2
  /\ Len(gameState[1].moves) = 2

\* C26: over any interleaving of makeMove and syncGameState the local
\* version never decreases and no locally applied move is dropped: the move
\* log of the state before a step is a prefix of the log after it.
C26_SyncKeepsLocalMoves ==
  [][(ret'.op # "initialize" /\ gameState # NoGame) =>
       /\ gameState' # NoGame
       /\ gameState'[1].version >= gameState[1].version
       /\ Len(gameState'[1].moves) >= Len(gameState[1].moves)
       /\ SubSeq(gameState'[1].moves, 1, Len(gameState[1].moves)) = gameState[1].moves]_vars

\* ------------------------------------------------- sessions and disconnect

\* C27: a disconnectWallet(a) that was already suspended on the client's
\* disconnect when createWalletSession(a) made a new session (here: in
\* place of a's expired one) does not remove that session when it resumes:
\* the credential the create returned is still the stored one.
C27_SuspendedDisconnectKeepsNewSession ==
  [][(/\ ret.op = "createWalletSession"
      /\ ret.success
      /\ ret.arg.address \in pendingDisconnect
      /\ \E d \in Entries(deleted) : d.address = ret.arg.address
      /\ ret'.op = "disconnectWallet"
      /\ ret'.arg.address = ret.arg.address
      /\ ret'.value # "awaiting") =>
       /\ SessionHas(sessions', ret.arg.address)
       /\ SessionGet(sessions', ret.arg.address)[1].sessionKey = ret.value]_vars

\* ------------------------------------------------- service and wallet

\* C28: whenever isWalletConnected() is true, connectedAccount is non-null,
\* and a sendPayment issued through the connected service is never
\* rejected with 'Wallet not connected'.
C28_ConnectedServiceHasAccount ==
  /\ []((isConnected /\ currentAccount # Null) => connectedAccount # Null)
  /\ [][(ret'.op = "sendPayment" /\ isConnected /\ currentAccount # Null) =>
          ret'.error # "Wallet not connected"]_vars

\* C29: disconnect is all-or-nothing: when the external disconnect has
\* succeeded, isConnected is false, currentAccount is null and both channel
\* maps are empty; when it has failed, the error is rethrown and
\* isConnected, currentAccount and both maps are as they were.
C29_DisconnectAllOrNothing ==
  [][(ret'.op = "disconnect") =>
       IF ret'.thrown
       THEN /\ ret'.error = "Network error"
            /\ isConnected' = isConnected
            /\ currentAccount' = currentAccount
            /\ activeChannels' = activeChannels
            /\ channelStates' = channelStates
       ELSE /\ isConnected' = FALSE
            /\ currentAccount' = Null
            /\ activeChannels' = EmptyMap
            /\ channelStates' = EmptyMap]_vars

\* C29, reached: a disconnect has failed on a connected service with a
\* channel in its registry, and the service is still connected with it.
C29_Witness ==
  /\ ret.op = "disconnect"
  /\ ret.thrown
  /\ isConnected
  /\ currentAccount # Null
  /\ DOMAIN activeChannels # {}
  /\ DOMAIN channelStates = DOMAIN activeChannels

\* C30: createWalletSession(a) for an address whose own stored session has
\* expired never evicts another address's session: the lookup purges a's
\* entry before the capacity check, so every other entry is still present,
\* unchanged and in its order, after the call, and a has its new session.
C30_ExpiredOwnEntryMakesRoom ==
  [][(/\ ret'.op = "createWalletSession"
      /\ SessionHas(sessions, ret'.arg.address)
      /\ now > SessionGet(sessions, ret'.arg.address)[1].expiresAt) =>
       LET a == ret'.arg.address IN
       /\ ret'.success
       /\ Len(AfterLookup(sessions, a, now)) < MaxSessions
       /\ SelectSeq(sessions', LAMBDA s : s.address # a)
            = SelectSeq(sessions, LAMBDA s : s.address # a)
       /\ Len(sessions') = Len(sessions)
       /\ SessionGet(sessions', a)[1].createdAt = now
       /\ Entries(deleted') = Entries(SessionGet(sessions, a))]_vars

\* C30, reached: the store was full, a's own session had expired, and the
\* create for a has replaced it while the other address's unexpired session
\* is still stored.
C30_Witness ==
  /\ ret.op = "createWalletSession"
  /\ ret.success
  /\ Len(sessions) = MaxSessions
  /\ Len(deleted) = 1
  /\ deleted[1].address = ret.arg.address
  /\ now > deleted[1].expiresAt
  /\ \E i \in 1..Len(sessions) :
       sessions[i].address # ret.arg.address /\ now <= sessions[i].expiresAt

====
